---- MODULE Spec2Model ----
(***************************************************************************)
(* sistema-logistica: route capacity, delivery lifecycle and route         *)
(* lifecycle of the Django/DRF backend (core/models.py, core/views.py,     *)
(* core/serializers.py).  The database rows are the state; every API       *)
(* handler is one action (requests are served one at a time).              *)
(***************************************************************************)
EXTENDS Integers, Sequences, FiniteSets, TLC

\* ------------------------------------------------------------------ bounds
NumMotoristas == 2
NumVeiculos == 2
NumEntregas == 2
NumRotas == 2
MaxHist == 2
MaxTime == 2
MaxCriadas == 2
NumPedidos == 2

\* --------------------------------------------------------------- constants
\* A null foreign key / null timestamp (null=True, blank=True).
None == 0
\* The administrator: request.user.is_staff, with no linked Motorista.
\* Actor a > 0 is the user linked to Motorista a (Motorista.usuario).
Admin == 0

Motoristas == 1..NumMotoristas
Veiculos == 1..NumVeiculos
Entregas == 1..NumEntregas
Atores == {Admin} \cup Motoristas

StatusEntrega == {"pendente", "em_transito", "entregue", "cancelada", "remarcada"}
StatusMotorista == {"ativo", "inativo", "em_rota", "disponivel"}
StatusVeiculo == {"disponivel", "em_uso", "manutencao"}
StatusRota == {"planejada", "em_andamento", "concluida", "cancelada"}

VARIABLES
    motoristas,     \* Motorista rows: [status]
    veiculos,       \* Veiculo rows: [status, motorista_atual, km_atual, capacidade_maxima]
    entregas,       \* Entrega rows: [status, capacidade_necessaria, motorista, rota, data_entrega_real]
    rotas,          \* Rota rows, pk = index: [status, motorista, veiculo, capacidade_total_utilizada, ...]
    rota_entregas,  \* the Rota.entregas many-to-many table: pk -> set of Entrega pks
    historico,      \* HistoricoEntrega rows of each Entrega, oldest first
    now,            \* timezone.now()
    resposta,       \* the Response of the last request: [op, status, erro]
    pedidos         \* requests in flight: the view's position and the objects it holds

vars == <<motoristas, veiculos, entregas, rotas, rota_entregas, historico, now, resposta,
         pedidos>>
banco == <<motoristas, veiculos, entregas, rotas, rota_entregas, historico>>

\* ----------------------------------------------------------------- fixture
\* The rows BaseTestCase.setUp creates, scaled down: vehicle v carries v + 2
\* units, deliveries 1 and 2 need 2 units each and any further one 1 unit.
CapacidadeMaximaInicial(v) == v + 2
CapacidadeNecessariaInicial(e) == IF e <= 2 THEN 2 ELSE 1

\* A request slot no request has used yet.  The objects a view holds are kept
\* as sequences: empty until the view has loaded the row.
Pedidos == 1..NumPedidos
PedidoLivre ==
    [op |-> "nenhuma", pc |-> "livre", pk |-> None, entrega_id |-> None, status |-> 0,
     rota |-> <<>>, entrega |-> <<>>, motorista |-> <<>>, veiculo |-> <<>>]

MotoristaInicial(m) == [status |-> IF m = 1 THEN "ativo" ELSE "disponivel"]

VeiculoInicial(v) ==
    [status |-> "disponivel", motorista_atual |-> None, km_atual |-> 0,
     capacidade_maxima |-> CapacidadeMaximaInicial(v)]

EntregaInicial(e) ==
    [status |-> "pendente", capacidade_necessaria |-> CapacidadeNecessariaInicial(e),
     motorista |-> None, rota |-> None, data_entrega_real |-> None,
     data_entrega_prevista |-> MaxTime]

Init ==
    /\ motoristas = [m \in Motoristas |-> MotoristaInicial(m)]
    /\ veiculos = [v \in Veiculos |-> VeiculoInicial(v)]
    /\ entregas = [e \in Entregas |-> EntregaInicial(e)]
    /\ rotas = <<>>
    /\ rota_entregas = <<>>
    /\ historico = [e \in Entregas |-> <<>>]
    /\ now = 1
    /\ resposta = [op |-> "nenhuma", status |-> 0, erro |-> ""]
    /\ pedidos = [i \in Pedidos |-> PedidoLivre]

Response(op, status, erro) == [op |-> op, status |-> status, erro |-> erro]

\* A request that ends in an error response writes nothing.
Rejeita(op, status, erro) ==
    /\ resposta' = Response(op, status, erro)
    /\ UNCHANGED <<banco, now, pedidos>>

\* ------------------------------------------------------------------ models
RECURSIVE Sum(_, _)
Sum(S, ents) ==
    IF S = {} THEN 0
    ELSE LET e == CHOOSE x \in S : TRUE
         IN ents[e].capacidade_necessaria + Sum(S \ {e}, ents)

\* Rota.calcular_capacidade_utilizada: the aggregate over the m2m rows, `or 0`.
calcular_capacidade_utilizada(membros, ents) == Sum(membros, ents)

\* Mutant: Entrega.save stamps whenever the row is saved as entregue.
EntregaSave_SempreCarimba(ent) ==
    IF ent.status = "entregue"
    THEN [ent EXCEPT !.data_entrega_real = now]
    ELSE ent

\* Entrega.save: stamps data_entrega_real the first time the row is saved
\* as entregue.
EntregaSave(ent) ==
    IF ent.status = "entregue" /\ ent.data_entrega_real = None
    THEN [ent EXCEPT !.data_entrega_real = now]
    ELSE ent

\* Mutant: Rota.save without the recompute.
RotaSaveCapacidade_SemRecalculo(rota, pk, membros, ents) == rota

\* Rota.save, first part: a row that already has a pk gets its capacity
\* recomputed from the m2m rows.
RotaSaveCapacidade(rota, pk, membros, ents) ==
    IF pk # None
    THEN [rota EXCEPT !.capacidade_total_utilizada =
                          calcular_capacidade_utilizada(membros, ents)]
    ELSE rota

\* Mutant: Rota.save pushes the status of a started route only.
RotaSaveMotoristas_SoInicio(rota, mots) ==
    IF rota.status = "em_andamento" /\ rota.motorista # None
    THEN [mots EXCEPT ![rota.motorista].status = "em_rota"]
    ELSE mots

\* Rota.save, second part: the status of the route is pushed onto its driver
\* and its vehicle.
RotaSaveMotoristas(rota, mots) ==
    IF rota.status = "em_andamento" /\ rota.motorista # None
    THEN [mots EXCEPT ![rota.motorista].status = "em_rota"]
    ELSE IF rota.status = "concluida" /\ rota.motorista # None
    THEN [mots EXCEPT ![rota.motorista].status = "disponivel"]
    ELSE mots

RotaSaveVeiculos(rota, veis) ==
    IF rota.status = "em_andamento" /\ rota.veiculo # None
    THEN [veis EXCEPT ![rota.veiculo].status = "em_uso"]
    ELSE IF rota.status = "concluida" /\ rota.veiculo # None
    THEN [veis EXCEPT ![rota.veiculo].status = "disponivel"]
    ELSE veis

\* --------------------------------------------------------------- querysets
RotaExiste(pk) == pk \in DOMAIN rotas

\* Mutant: get_queryset without the filter on the driver.
RotaVisivel_SemFiltro(a, pk) == RotaExiste(pk)

\* RotaViewSet.get_queryset: staff see every route, a driver only the routes
\* whose motorista is the driver.
RotaVisivel(a, pk) ==
    /\ RotaExiste(pk)
    /\ a # Admin => rotas[pk].motorista = a

\* EntregaViewSet.get_queryset: the same filter on Entrega.motorista.
EntregaVisivel(a, e) ==
    /\ e \in DOMAIN entregas
    /\ a # Admin => entregas[e].motorista = a

\* Entrega.objects.get(id=entrega_id)
EntregaExiste(e) == e \in DOMAIN entregas

\* A field the request body does not carry (partial update, optional field).
Omitido == -1
OmitidoS == "omitido"

\* ------------------------------------------------- RotaViewSet: deliveries
\* Mutant: the check looks at the delivery alone, not at the load of the route.
CapacidadeExcedida_SemCarga(rota, ent) ==
    /\ rota.veiculo # None
    /\ ent.capacidade_necessaria > veiculos[rota.veiculo].capacidade_maxima

\* adicionar_entrega, "Verificar capacidade": the stored capacity of the route
\* plus the delivery against the vehicle of the route.
CapacidadeExcedida(rota, ent) ==
    LET capacidade_futura == rota.capacidade_total_utilizada + ent.capacidade_necessaria
    IN  /\ rota.veiculo # None
        /\ capacidade_futura > veiculos[rota.veiculo].capacidade_maxima

\* What rota.save() writes: the Rota row, the Motorista rows, the Veiculo rows.
RotaSaveEfeito(rota, pk, membros, ents, mots, veis) ==
    LET salva == RotaSaveCapacidade(rota, pk, membros, ents)
    IN  [rota |-> salva,
         motoristas |-> RotaSaveMotoristas(salva, mots),
         veiculos |-> RotaSaveVeiculos(salva, veis)]

AdicionarEntrega(a, pk, entrega_id) ==
    LET op == "adicionar_entrega" IN
    IF a # Admin THEN Rejeita(op, 403, "permissao")
    ELSE IF ~RotaVisivel(a, pk) THEN Rejeita(op, 404, "rota")
    ELSE IF entrega_id = None THEN Rejeita(op, 400, "obrigatorio")
    ELSE IF ~EntregaExiste(entrega_id) THEN Rejeita(op, 404, "entrega")
    ELSE IF CapacidadeExcedida(rotas[pk], entregas[entrega_id])
    THEN Rejeita(op, 400, "capacidade")
    ELSE
        LET membros == rota_entregas[pk] \cup {entrega_id}
            ents == [entregas EXCEPT
                        ![entrega_id] = EntregaSave([@ EXCEPT !.rota = pk])]
            rota == [rotas[pk] EXCEPT !.capacidade_total_utilizada =
                        calcular_capacidade_utilizada(membros, ents)]
            s == RotaSaveEfeito(rota, pk, membros, ents, motoristas, veiculos)
        IN  /\ rota_entregas' = [rota_entregas EXCEPT ![pk] = membros]
            /\ entregas' = ents
            /\ rotas' = [rotas EXCEPT ![pk] = s.rota]
            /\ motoristas' = s.motoristas
            /\ veiculos' = s.veiculos
            /\ resposta' = Response(op, 200, "")
            /\ UNCHANGED <<historico, now, pedidos>>

RemoverEntrega(a, pk, entrega_id) ==
    LET op == "remover_entrega" IN
    IF a # Admin THEN Rejeita(op, 403, "permissao")
    ELSE IF ~RotaVisivel(a, pk) THEN Rejeita(op, 404, "rota")
    ELSE IF entrega_id = None THEN Rejeita(op, 400, "obrigatorio")
    ELSE IF entrega_id \notin rota_entregas[pk] THEN Rejeita(op, 404, "entrega")
    ELSE
        LET membros == rota_entregas[pk] \ {entrega_id}
            ents == [entregas EXCEPT
                        ![entrega_id] = EntregaSave([@ EXCEPT !.rota = None])]
            rota == [rotas[pk] EXCEPT !.capacidade_total_utilizada =
                        calcular_capacidade_utilizada(membros, ents)]
            s == RotaSaveEfeito(rota, pk, membros, ents, motoristas, veiculos)
        IN  /\ rota_entregas' = [rota_entregas EXCEPT ![pk] = membros]
            /\ entregas' = ents
            /\ rotas' = [rotas EXCEPT ![pk] = s.rota]
            /\ motoristas' = s.motoristas
            /\ veiculos' = s.veiculos
            /\ resposta' = Response(op, 200, "")
            /\ UNCHANGED <<historico, now, pedidos>>

\* ------------------------------------------- RotaViewSet: create and update
\* RotaCreateSerializer.entregas_ids: primary keys of pending deliveries only.
EntregasIdsValidas(entregas_ids) ==
    \A e \in entregas_ids : EntregaExiste(e) /\ entregas[e].status = "pendente"

\* RotaCreateSerializer.validate: the deliveries against the vehicle.
RotaCreateExcede(veiculo, entregas_ids) ==
    /\ veiculo # None
    /\ entregas_ids # {}
    /\ Sum(entregas_ids, entregas) > veiculos[veiculo].capacidade_maxima

RotaNova(status, motorista_id, veiculo_id) ==
    [status |-> status, motorista |-> motorista_id, veiculo |-> veiculo_id,
     capacidade_total_utilizada |-> 0, km_total_real |-> 0,
     data_inicio |-> None, data_conclusao |-> None]

\* RotaCreateSerializer.create: the row is inserted (its first save has no
\* pk yet), then the validated deliveries are set and the row is saved again.
RotaCreateSerializerCreate(rota, pk, entregas_ids) ==
    LET s1 == RotaSaveEfeito(rota, None, {}, entregas, motoristas, veiculos)
    IN  IF entregas_ids # {}
        THEN RotaSaveEfeito(s1.rota, pk, entregas_ids, entregas,
                            s1.motoristas, s1.veiculos)
                @@ [membros |-> entregas_ids]
        ELSE s1 @@ [membros |-> {}]

\* RotaViewSet.create: after serializer.save(), the raw request.data['entregas']
\* list (not a serializer field) replaces the delivery set.
RotaCreate(a, status, motorista_id, veiculo_id, entregas_ids, entregas_raw) ==
    LET op == "rota_create"
        pk == Len(rotas) + 1
    IN
    /\ Len(rotas) < NumRotas
    /\ IF a # Admin THEN Rejeita(op, 403, "permissao")
       ELSE IF ~EntregasIdsValidas(entregas_ids) THEN Rejeita(op, 400, "entregas_ids")
       ELSE IF RotaCreateExcede(veiculo_id, entregas_ids)
       THEN Rejeita(op, 400, "capacidade")
       ELSE
        LET c == RotaCreateSerializerCreate(
                     RotaNova(status, motorista_id, veiculo_id), pk, entregas_ids)
            v == IF entregas_raw # {}
                 THEN RotaSaveEfeito(
                          [c.rota EXCEPT !.capacidade_total_utilizada =
                               calcular_capacidade_utilizada(entregas_raw, entregas)],
                          pk, entregas_raw, entregas, c.motoristas, c.veiculos)
                          @@ [membros |-> entregas_raw]
                 ELSE c
        IN  /\ rotas' = Append(rotas, v.rota)
            /\ rota_entregas' = Append(rota_entregas, v.membros)
            /\ motoristas' = v.motoristas
            /\ veiculos' = v.veiculos
            /\ resposta' = Response(op, 201, "")
            /\ UNCHANGED <<entregas, historico, now, pedidos>>

\* RotaViewSet.partial_update with RotaUpdateSerializer: status, motorista_id
\* and veiculo_id are writable; ModelSerializer.update sets them and saves.
RotaPartialUpdate(a, pk, status, motorista_id, veiculo_id) ==
    LET op == "rota_partial_update" IN
    IF a # Admin THEN Rejeita(op, 403, "permissao")
    ELSE IF ~RotaVisivel(a, pk) THEN Rejeita(op, 404, "rota")
    ELSE
        LET rota == [rotas[pk] EXCEPT
                        !.status = IF status = OmitidoS THEN @ ELSE status,
                        !.motorista = IF motorista_id = Omitido THEN @ ELSE motorista_id,
                        !.veiculo = IF veiculo_id = Omitido THEN @ ELSE veiculo_id]
            s == RotaSaveEfeito(rota, pk, rota_entregas[pk], entregas,
                                motoristas, veiculos)
        IN  /\ rotas' = [rotas EXCEPT ![pk] = s.rota]
            /\ motoristas' = s.motoristas
            /\ veiculos' = s.veiculos
            /\ resposta' = Response(op, 200, "")
            /\ UNCHANGED <<entregas, rota_entregas, historico, now, pedidos>>

\* ---------------------------------------------------- RotaViewSet: start
\* Mutant: iniciar_rota without the driver-and-vehicle guard.
IniciarRotaErro_SemAtribuicao(rota) ==
    IF rota.status # "planejada" THEN "status" ELSE ""

\* iniciar_rota's two guards, in the order of the code; "" when both pass.
IniciarRotaErro(rota) ==
    IF rota.status # "planejada" THEN "status"
    ELSE IF rota.motorista = None \/ rota.veiculo = None THEN "atribuicao"
    ELSE ""

\* Mutant: the bulk update without the filter on pendente.
IniciarRotaEntregas_SemFiltro(membros, ents) ==
    [e \in DOMAIN ents |->
        IF e \in membros THEN [ents[e] EXCEPT !.status = "em_transito"]
        ELSE ents[e]]

\* rota.entregas.filter(status='pendente').update(status='em_transito'):
\* a bulk UPDATE, no Entrega.save and no HistoricoEntrega row.
IniciarRotaEntregas(membros, ents) ==
    [e \in DOMAIN ents |->
        IF e \in membros /\ ents[e].status = "pendente"
        THEN [ents[e] EXCEPT !.status = "em_transito"]
        ELSE ents[e]]

IniciarRota(a, pk) ==
    LET op == "iniciar_rota" IN
    IF ~RotaVisivel(a, pk) THEN Rejeita(op, 404, "rota")
    ELSE IF IniciarRotaErro(rotas[pk]) # ""
    THEN Rejeita(op, 400, IniciarRotaErro(rotas[pk]))
    ELSE
        LET rota == [rotas[pk] EXCEPT !.status = "em_andamento", !.data_inicio = now]
            s == RotaSaveEfeito(rota, pk, rota_entregas[pk], entregas,
                                motoristas, veiculos)
        IN  /\ rotas' = [rotas EXCEPT ![pk] = s.rota]
            /\ motoristas' = s.motoristas
            /\ veiculos' = s.veiculos
            /\ entregas' = IniciarRotaEntregas(rota_entregas[pk], entregas)
            /\ resposta' = Response(op, 200, "")
            /\ UNCHANGED <<rota_entregas, historico, now, pedidos>>

\* -------------------------------------------------- RotaViewSet: complete
\* Mutant: concluir_rota also lets a planned route through.
ConcluirRotaErro_AceitaPlanejada(rota) ==
    IF rota.status \notin {"em_andamento", "planejada"} THEN "status" ELSE ""

\* concluir_rota's guard; "" when it passes.
ConcluirRotaErro(rota) ==
    IF rota.status # "em_andamento" THEN "status" ELSE ""

\* Mutant: the odometer is overwritten with the distance of the route.
ConcluirRotaVeiculos_Sobrescreve(rota, veis) ==
    IF rota.veiculo # None
    THEN [veis EXCEPT ![rota.veiculo].km_atual = rota.km_total_real]
    ELSE veis

\* concluir_rota, "Atualizar veículo": rota.veiculo.km_atual += km_total_real
\* on the vehicle object Rota.save has just written.
ConcluirRotaVeiculos(rota, veis) ==
    IF rota.veiculo # None
    THEN [veis EXCEPT ![rota.veiculo].km_atual = @ + rota.km_total_real]
    ELSE veis

\* concluir_rota: km_total_real is taken from the request body as it is, or
\* left as stored when the body does not carry it.
ConcluirRota(a, pk, km_real) ==
    LET op == "concluir_rota" IN
    IF ~RotaVisivel(a, pk) THEN Rejeita(op, 404, "rota")
    ELSE IF ConcluirRotaErro(rotas[pk]) # ""
    THEN Rejeita(op, 400, ConcluirRotaErro(rotas[pk]))
    ELSE
        LET rota == [rotas[pk] EXCEPT
                        !.status = "concluida",
                        !.data_conclusao = now,
                        !.km_total_real = IF km_real = Omitido THEN @ ELSE km_real]
            s == RotaSaveEfeito(rota, pk, rota_entregas[pk], entregas,
                                motoristas, veiculos)
        IN  /\ rotas' = [rotas EXCEPT ![pk] = s.rota]
            /\ motoristas' = s.motoristas
            /\ veiculos' = ConcluirRotaVeiculos(s.rota, s.veiculos)
            /\ resposta' = Response(op, 200, "")
            /\ UNCHANGED <<entregas, rota_entregas, historico, now, pedidos>>

\* ------------------------------------------------------ MotoristaViewSet
\* motorista.veiculos_associados.filter(status='em_uso')
VeiculosEmUso(motorista_id, veis) ==
    {v \in DOMAIN veis :
        veis[v].motorista_atual = motorista_id /\ veis[v].status = "em_uso"}

\* Veiculo.objects.get(id=veiculo_id, status='disponivel')
VeiculoAtribuivel(veiculo_id) ==
    /\ veiculo_id \in DOMAIN veiculos
    /\ veiculos[veiculo_id].status = "disponivel"

\* atribuir_veiculo: .get(status='em_uso') raises MultipleObjectsReturned when
\* the driver holds several vehicles in use; nothing was written by then.
AtribuirVeiculo(a, pk, veiculo_id) ==
    LET op == "atribuir_veiculo" IN
    IF a # Admin THEN Rejeita(op, 403, "permissao")
    ELSE IF pk \notin DOMAIN motoristas THEN Rejeita(op, 404, "motorista")
    ELSE IF veiculo_id = None THEN Rejeita(op, 400, "obrigatorio")
    ELSE IF ~VeiculoAtribuivel(veiculo_id) THEN Rejeita(op, 400, "veiculo")
    ELSE IF Cardinality(VeiculosEmUso(pk, veiculos)) > 1
    THEN Rejeita(op, 500, "MultipleObjectsReturned")
    ELSE
        LET liberados == [v \in DOMAIN veiculos |->
                            IF v \in VeiculosEmUso(pk, veiculos)
                            THEN [veiculos[v] EXCEPT !.motorista_atual = None,
                                                     !.status = "disponivel"]
                            ELSE veiculos[v]]
        IN  /\ veiculos' = [liberados EXCEPT ![veiculo_id].motorista_atual = pk,
                                             ![veiculo_id].status = "em_uso"]
            /\ motoristas' = [motoristas EXCEPT ![pk].status = "disponivel"]
            /\ resposta' = Response(op, 200, "")
            /\ UNCHANGED <<entregas, rotas, rota_entregas, historico, now, pedidos>>

\* ------------------------------------------------------- EntregaViewSet
\* EntregaStatusUpdateSerializer.validate_status: the allow-list consulted for
\* a non-staff user.
\* Mutant: the allow-list lets a driver deliver a pending delivery.
allowed_transitions_PendenteEntregue ==
    [atual \in {"pendente", "em_transito", "remarcada"} |->
        CASE atual = "pendente" -> {"em_transito", "entregue"}
          [] atual = "em_transito" -> {"entregue", "remarcada"}
          [] atual = "remarcada" -> {"em_transito"}]

allowed_transitions ==
    [atual \in {"pendente", "em_transito", "remarcada"} |->
        CASE atual = "pendente" -> {"em_transito"}
          [] atual = "em_transito" -> {"entregue", "remarcada"}
          [] atual = "remarcada" -> {"em_transito"}]

validate_status(a, current_status, value) ==
    \/ a = Admin
    \/ ~(/\ current_status \in DOMAIN allowed_transitions
         /\ value \notin allowed_transitions[current_status])

HistoricoEntrega(status_anterior, status_novo, motorista) ==
    [status_anterior |-> status_anterior, status_novo |-> status_novo,
     motorista |-> motorista]

\* Rows in the HistoricoEntrega table; requests that add one are explored
\* while the table holds fewer than MaxHist rows.
RECURSIVE HistoricoRows(_)
HistoricoRows(S) ==
    IF S = {} THEN 0
    ELSE LET e == CHOOSE x \in S : TRUE
         IN Len(historico[e]) + HistoricoRows(S \ {e})

HistoricoCabe == HistoricoRows(DOMAIN historico) < MaxHist

\* atualizar_status, after the serializer accepted the request: the row.
AtualizarStatusEntrega(ent, novo_status) ==
    LET e1 == [ent EXCEPT !.status = novo_status]
        e2 == IF novo_status = "entregue" /\ e1.data_entrega_real = None
              THEN [e1 EXCEPT !.data_entrega_real = now]
              ELSE e1
    IN  EntregaSave(e2)

\* Mutant: the history row reads the status after it was assigned.
AtualizarStatusHistorico_AposSalvar(ent, novo_status) ==
    HistoricoEntrega(novo_status, novo_status, ent.motorista)

\* atualizar_status, after the serializer accepted the request: the history row.
AtualizarStatusHistorico(ent, novo_status) ==
    HistoricoEntrega(ent.status, novo_status, ent.motorista)

AtualizarStatus(a, e, novo_status) ==
    LET op == "atualizar_status" IN
    IF ~EntregaVisivel(a, e) THEN Rejeita(op, 404, "entrega")
    ELSE IF novo_status \notin StatusEntrega THEN Rejeita(op, 400, "status")
    ELSE IF ~validate_status(a, entregas[e].status, novo_status)
    THEN Rejeita(op, 400, "transicao")
    ELSE
        /\ HistoricoCabe
        /\ entregas' = [entregas EXCEPT ![e] = AtualizarStatusEntrega(@, novo_status)]
        /\ historico' = [historico EXCEPT
                            ![e] = Append(@, AtualizarStatusHistorico(entregas[e], novo_status))]
        /\ resposta' = Response(op, 200, "")
        /\ UNCHANGED <<motoristas, veiculos, rotas, rota_entregas, now, pedidos>>

\* Mutant: the lookup without the filter on status.
MotoristaAtribuivel_QualquerStatus(motorista_id) ==
    motorista_id \in DOMAIN motoristas

\* atribuir_motorista: Motorista.objects.get(id=..., status__in=['ativo','disponivel'])
MotoristaAtribuivel(motorista_id) ==
    /\ motorista_id \in DOMAIN motoristas
    /\ motoristas[motorista_id].status \in {"ativo", "disponivel"}

AtribuirMotorista(a, e, motorista_id) ==
    LET op == "atribuir_motorista" IN
    IF a # Admin THEN Rejeita(op, 403, "permissao")
    ELSE IF ~EntregaVisivel(a, e) THEN Rejeita(op, 404, "entrega")
    ELSE IF motorista_id = None THEN Rejeita(op, 400, "obrigatorio")
    ELSE IF ~MotoristaAtribuivel(motorista_id) THEN Rejeita(op, 400, "motorista")
    ELSE
        LET ent == EntregaSave([entregas[e] EXCEPT !.motorista = motorista_id])
        IN  /\ HistoricoCabe
            /\ entregas' = [entregas EXCEPT ![e] = ent]
            /\ historico' = [historico EXCEPT
                                ![e] = Append(@, HistoricoEntrega(ent.status, ent.status,
                                                                  motorista_id))]
            /\ resposta' = Response(op, 200, "")
            /\ UNCHANGED <<motoristas, veiculos, rotas, rota_entregas, now, pedidos>>

\* EntregaSerializer.validate: only when the request names a route that has a
\* vehicle; it reads data['capacidade_necessaria'] unconditionally.
EntregaValidateErro(capacidade_necessaria, rota_id) ==
    IF rota_id = Omitido \/ rota_id = None THEN ""
    ELSE IF rotas[rota_id].veiculo = None THEN ""
    ELSE IF capacidade_necessaria = Omitido THEN "KeyError"
    ELSE IF capacidade_necessaria >
                veiculos[rotas[rota_id].veiculo].capacidade_maxima
                    - rotas[rota_id].capacidade_total_utilizada
    THEN "capacidade"
    ELSE ""

\* EntregaViewSet.partial_update with EntregaSerializer: status, motorista_id,
\* capacidade_necessaria and rota are ordinary writable fields; the row is
\* saved and nothing else is written.
EntregaPartialUpdate(a, e, status, motorista_id, capacidade_necessaria, rota_id) ==
    LET op == "entrega_partial_update" IN
    IF ~EntregaVisivel(a, e) THEN Rejeita(op, 404, "entrega")
    ELSE IF rota_id \notin {Omitido, None} /\ ~RotaExiste(rota_id)
    THEN Rejeita(op, 400, "rota")
    ELSE IF EntregaValidateErro(capacidade_necessaria, rota_id) = "KeyError"
    THEN Rejeita(op, 500, "KeyError")
    ELSE IF EntregaValidateErro(capacidade_necessaria, rota_id) # ""
    THEN Rejeita(op, 400, "capacidade")
    ELSE
        LET ent == [entregas[e] EXCEPT
                       !.status = IF status = OmitidoS THEN @ ELSE status,
                       !.motorista = IF motorista_id = Omitido THEN @ ELSE motorista_id,
                       !.capacidade_necessaria =
                           IF capacidade_necessaria = Omitido THEN @
                           ELSE capacidade_necessaria,
                       !.rota = IF rota_id = Omitido THEN @ ELSE rota_id]
        IN  /\ entregas' = [entregas EXCEPT ![e] = EntregaSave(ent)]
            /\ resposta' = Response(op, 200, "")
            /\ UNCHANGED <<motoristas, veiculos, rotas, rota_entregas, historico, now, pedidos>>

\* ------------------------------------------------------- public tracking
\* A request without credentials.
Anonimo == -1

\* A tracking code is a sequence of characters; a character is a symbol and
\* its case.  generate_codigo_rastreio: the upper-cased token of the row
\* (unique=True on the column).
generate_codigo_rastreio(e) == <<[simbolo |-> e, maiuscula |-> TRUE]>>

\* str.upper.
upper(codigo) == [i \in DOMAIN codigo |-> [codigo[i] EXCEPT !.maiuscula = TRUE]]

\* Mutant: the history of some other delivery.
HistoricoFilter_OutraEntrega(entrega, hist) ==
    IF \E o \in DOMAIN hist : o # entrega
    THEN hist[CHOOSE o \in DOMAIN hist : o # entrega]
    ELSE <<>>

\* HistoricoEntrega.objects.filter(entrega=entrega).
HistoricoFilter(entrega, hist) == hist[entrega]

\* EntregaViewSet.por_codigo_rastreio (AllowAny): the code is upper-cased
\* and looked up; the response carries the delivery and its history rows.
\* Nothing is written.
PorCodigoRastreio(a, codigo_param) ==
    LET op == "por_codigo_rastreio"
        codigo == upper(codigo_param)
        achadas == {e \in DOMAIN entregas : generate_codigo_rastreio(e) = codigo}
    IN  IF codigo = <<>> THEN Rejeita(op, 400, "obrigatorio")
        ELSE IF achadas = {} THEN Rejeita(op, 404, "entrega")
        ELSE
            LET entrega == CHOOSE e \in achadas : TRUE
            IN  /\ resposta' = [op |-> op, status |-> 200, erro |-> "",
                                entrega |-> entrega, dados |-> entregas[entrega],
                                historico |-> HistoricoFilter(entrega, historico)]
                /\ UNCHANGED <<banco, now, pedidos>>

\* ---------------------------------------------------------------- create
\* The id the database gives the next delivery row.
EntregaNovaId ==
    IF DOMAIN entregas = {} THEN 1
    ELSE (CHOOSE x \in DOMAIN entregas : \A y \in DOMAIN entregas : y <= x) + 1

\* EntregaViewSet.create (ModelViewSet) with EntregaSerializer: staff only.
\* fields = '__all__' keeps the model's own required field cliente; the
\* model validator wants capacidade_necessaria >= 1; validate() checks the
\* capacity of the given route and nothing about data_entrega_prevista.  The
\* row is created pending, with the given expected date.
EntregaCreate(a, cliente, data_entrega_prevista, capacidade_necessaria, rota_id) ==
    LET op == "entrega_create" IN
    IF a # Admin THEN Rejeita(op, 403, "permissao")
    ELSE IF cliente = Omitido THEN Rejeita(op, 400, "cliente")
    ELSE IF capacidade_necessaria < 1 THEN Rejeita(op, 400, "capacidade_necessaria")
    ELSE IF rota_id # None /\ ~RotaExiste(rota_id) THEN Rejeita(op, 400, "rota")
    ELSE IF EntregaValidateErro(capacidade_necessaria, rota_id) # ""
    THEN Rejeita(op, 400, "capacidade")
    ELSE
        LET e == EntregaNovaId
            ent == [status |-> "pendente",
                    capacidade_necessaria |-> capacidade_necessaria,
                    motorista |-> None, rota |-> rota_id,
                    data_entrega_real |-> None,
                    data_entrega_prevista |-> data_entrega_prevista]
        IN  /\ e <= NumEntregas + MaxCriadas
            /\ entregas' = [o \in DOMAIN entregas \cup {e} |->
                                IF o = e THEN EntregaSave(ent) ELSE entregas[o]]
            /\ historico' = [o \in DOMAIN historico \cup {e} |->
                                IF o = e THEN <<>> ELSE historico[o]]
            /\ resposta' = Response(op, 201, "")
            /\ UNCHANGED <<motoristas, veiculos, rotas, rota_entregas, now, pedidos>>

\* --------------------------------------------------------------- destroy
\* on_delete=CASCADE of HistoricoEntrega.entrega and of the m2m rows of
\* Rota.entregas: what is left when the Entrega row is deleted.
EntregaDeleteHistorico(e, hist) == [o \in DOMAIN hist \ {e} |-> hist[o]]

EntregaDeleteRotaEntregas(e, membros) ==
    [pk \in DOMAIN membros |-> membros[pk] \ {e}]

\* EntregaViewSet.destroy (ModelViewSet): staff only; instance.delete().
EntregaDestroy(a, e) ==
    LET op == "entrega_destroy" IN
    IF a # Admin THEN Rejeita(op, 403, "permissao")
    ELSE IF ~EntregaVisivel(a, e) THEN Rejeita(op, 404, "entrega")
    ELSE
        /\ entregas' = [o \in DOMAIN entregas \ {e} |-> entregas[o]]
        /\ historico' = EntregaDeleteHistorico(e, historico)
        /\ rota_entregas' = EntregaDeleteRotaEntregas(e, rota_entregas)
        /\ resposta' = Response(op, 204, "")
        /\ UNCHANGED <<motoristas, veiculos, rotas, now, pedidos>>

\* on_delete=SET_NULL of HistoricoEntrega.motorista: the rows of a deleted
\* driver stay, without the driver.
MotoristaDeleteHistorico(pk, hist) ==
    [e \in DOMAIN hist |->
        [i \in DOMAIN hist[e] |->
            IF hist[e][i].motorista = pk
            THEN [hist[e][i] EXCEPT !.motorista = None]
            ELSE hist[e][i]]]

\* MotoristaViewSet.destroy (ModelViewSet): staff only; instance.delete(),
\* with on_delete=SET_NULL on Entrega.motorista, Rota.motorista,
\* Veiculo.motorista_atual and HistoricoEntrega.motorista.
MotoristaDestroy(a, pk) ==
    LET op == "motorista_destroy" IN
    IF a # Admin THEN Rejeita(op, 403, "permissao")
    ELSE IF pk \notin DOMAIN motoristas THEN Rejeita(op, 404, "motorista")
    ELSE
        /\ motoristas' = [m \in DOMAIN motoristas \ {pk} |-> motoristas[m]]
        /\ entregas' = [e \in DOMAIN entregas |->
                            IF entregas[e].motorista = pk
                            THEN [entregas[e] EXCEPT !.motorista = None]
                            ELSE entregas[e]]
        /\ rotas' = [r \in DOMAIN rotas |->
                            IF rotas[r].motorista = pk
                            THEN [rotas[r] EXCEPT !.motorista = None]
                            ELSE rotas[r]]
        /\ veiculos' = [v \in DOMAIN veiculos |->
                            IF veiculos[v].motorista_atual = pk
                            THEN [veiculos[v] EXCEPT !.motorista_atual = None]
                            ELSE veiculos[v]]
        /\ historico' = MotoristaDeleteHistorico(pk, historico)
        /\ resposta' = Response(op, 204, "")
        /\ UNCHANGED <<rota_entregas, now, pedidos>>

\* ---------------------------------------------------------- transactions
\* The rows of the database as one value.
BancoAtual ==
    [motoristas |-> motoristas, veiculos |-> veiculos, entregas |-> entregas,
     rotas |-> rotas, rota_entregas |-> rota_entregas, historico |-> historico]

\* The writes of rota.save(), in the order of Rota.save: the driver row, the
\* vehicle row, the route row; the database after each of them.
RotaSaveEscritas(b, rota, pk) ==
    LET salva == RotaSaveCapacidade(rota, pk, b.rota_entregas[pk], b.entregas)
        b1 == [b EXCEPT !.motoristas = RotaSaveMotoristas(salva, @)]
        b2 == [b1 EXCEPT !.veiculos = RotaSaveVeiculos(salva, @)]
        b3 == [b2 EXCEPT !.rotas[pk] = salva]
    IN  <<b1, b2, b3>>

\* iniciar_rota: rota.save(), then the bulk update of the deliveries.
IniciarRotaEscritas(pk) ==
    LET rota == [rotas[pk] EXCEPT !.status = "em_andamento", !.data_inicio = now]
        w == RotaSaveEscritas(BancoAtual, rota, pk)
    IN  Append(w, [w[3] EXCEPT
                      !.entregas = IniciarRotaEntregas(rota_entregas[pk], @)])

\* concluir_rota: rota.save(), then the odometer of the vehicle.
ConcluirRotaEscritas(pk, km_real) ==
    LET rota == [rotas[pk] EXCEPT
                    !.status = "concluida",
                    !.data_conclusao = now,
                    !.km_total_real = IF km_real = Omitido THEN @ ELSE km_real]
        w == RotaSaveEscritas(BancoAtual, rota, pk)
    IN  Append(w, [w[3] EXCEPT
                      !.veiculos = ConcluirRotaVeiculos(w[3].rotas[pk], @)])

\* adicionar_entrega: the m2m row, the delivery row, then rota.save().
AdicionarEntregaEscritas(pk, entrega_id) ==
    LET b1 == [BancoAtual EXCEPT !.rota_entregas[pk] = @ \cup {entrega_id}]
        b2 == [b1 EXCEPT !.entregas[entrega_id] = EntregaSave([@ EXCEPT !.rota = pk])]
    IN  <<b1, b2>> \o RotaSaveEscritas(b2, rotas[pk], pk)

\* remover_entrega: the m2m row, the delivery row, then rota.save().
RemoverEntregaEscritas(pk, entrega_id) ==
    LET b1 == [BancoAtual EXCEPT !.rota_entregas[pk] = @ \ {entrega_id}]
        b2 == [b1 EXCEPT !.entregas[entrega_id] = EntregaSave([@ EXCEPT !.rota = None])]
    IN  <<b1, b2>> \o RotaSaveEscritas(b2, rotas[pk], pk)

\* Mutant: no transaction around the request; the writes made so far stay.
Transacao_SemRollback(antes, parcial) == parcial

\* The transaction boundary of a request: when a write fails, the writes
\* already made by the request are rolled back.
Transacao(antes, parcial) == antes

\* A request whose write number k + 1 fails, after the k writes before it.
Falha(op, escritas, k) ==
    LET visivel == Transacao(BancoAtual, IF k = 0 THEN BancoAtual ELSE escritas[k])
    IN  /\ k \in 0..(Len(escritas) - 1)
        /\ motoristas' = visivel.motoristas
        /\ veiculos' = visivel.veiculos
        /\ entregas' = visivel.entregas
        /\ rotas' = visivel.rotas
        /\ rota_entregas' = visivel.rota_entregas
        /\ historico' = visivel.historico
        /\ resposta' = Response(op, 500, "falha")
        /\ UNCHANGED <<now, pedidos>>

IniciarRotaFalha(a, pk, k) ==
    /\ RotaVisivel(a, pk)
    /\ IniciarRotaErro(rotas[pk]) = ""
    /\ Falha("iniciar_rota", IniciarRotaEscritas(pk), k)

ConcluirRotaFalha(a, pk, km_real, k) ==
    /\ RotaVisivel(a, pk)
    /\ ConcluirRotaErro(rotas[pk]) = ""
    /\ Falha("concluir_rota", ConcluirRotaEscritas(pk, km_real), k)

AdicionarEntregaFalha(a, pk, entrega_id, k) ==
    /\ a = Admin
    /\ RotaVisivel(a, pk)
    /\ EntregaExiste(entrega_id)
    /\ ~CapacidadeExcedida(rotas[pk], entregas[entrega_id])
    /\ Falha("adicionar_entrega", AdicionarEntregaEscritas(pk, entrega_id), k)

RemoverEntregaFalha(a, pk, entrega_id, k) ==
    /\ a = Admin
    /\ RotaVisivel(a, pk)
    /\ entrega_id \in rota_entregas[pk]
    /\ Falha("remover_entrega", RemoverEntregaEscritas(pk, entrega_id), k)

\* ------------------------------------------------------ requests in flight
\* The views take no lock (no select_for_update) and hold the rows they
\* loaded as Python objects, so the statements of two requests interleave.
\* One action below is one database statement of a view, or the checks the
\* view makes between two statements.
Termina(i, status, erro) ==
    /\ pedidos' = [pedidos EXCEPT ![i].pc = "fim", ![i].status = status]
    /\ resposta' = Response(pedidos[i].op, status, erro)

Segue(i, p) ==
    /\ pedidos' = [pedidos EXCEPT ![i] = p]
    /\ UNCHANGED resposta

\* self.get_object(), after the permission classes of the action: the Rota
\* row is read once and kept.
GetObject(i, a, op, pk, entrega_id) ==
    /\ pedidos[i].pc = "livre"
    /\ op \in {"adicionar_entrega", "remover_entrega", "iniciar_rota"}
    /\ LET p == [pedidos[i] EXCEPT !.op = op, !.pk = pk, !.entrega_id = entrega_id]
       IN  IF op # "iniciar_rota" /\ a # Admin
           THEN /\ pedidos' = [pedidos EXCEPT ![i] = [p EXCEPT !.pc = "fim", !.status = 403]]
                /\ resposta' = Response(op, 403, "permissao")
           ELSE IF ~RotaVisivel(a, pk)
           THEN /\ pedidos' = [pedidos EXCEPT ![i] = [p EXCEPT !.pc = "fim", !.status = 404]]
                /\ resposta' = Response(op, 404, "rota")
           ELSE Segue(i, [p EXCEPT !.rota = <<rotas[pk]>>,
                                   !.pc = IF op = "iniciar_rota" THEN "verificar"
                                          ELSE "entrega_get"])
    /\ UNCHANGED <<banco, now>>

\* adicionar_entrega: Entrega.objects.get(id=entrega_id).
AdicionarEntregaGet(i) ==
    LET p == pedidos[i] IN
    /\ p.op = "adicionar_entrega" /\ p.pc = "entrega_get"
    /\ IF p.entrega_id = None THEN Termina(i, 400, "obrigatorio")
       ELSE IF ~EntregaExiste(p.entrega_id) THEN Termina(i, 404, "entrega")
       ELSE Segue(i, [p EXCEPT !.entrega = <<entregas[p.entrega_id]>>, !.pc = "verificar"])
    /\ UNCHANGED <<banco, now>>

\* adicionar_entrega, "Verificar capacidade": the capacity of the Rota object
\* the view holds, against rota.veiculo, which is read here and kept.
AdicionarEntregaVerificar(i) ==
    LET p == pedidos[i]
        rota == p.rota[1]
    IN
    /\ p.op = "adicionar_entrega" /\ p.pc = "verificar"
    /\ IF rota.veiculo # None /\ rota.veiculo \in DOMAIN veiculos
       THEN IF rota.capacidade_total_utilizada + p.entrega[1].capacidade_necessaria
                    > veiculos[rota.veiculo].capacidade_maxima
            THEN Termina(i, 400, "capacidade")
            ELSE Segue(i, [p EXCEPT !.veiculo = <<veiculos[rota.veiculo]>>, !.pc = "m2m"])
       ELSE Segue(i, [p EXCEPT !.pc = "m2m"])
    /\ UNCHANGED <<banco, now>>

\* rota.entregas.add(entrega)
AdicionarEntregaAdd(i) ==
    LET p == pedidos[i] IN
    /\ p.op = "adicionar_entrega" /\ p.pc = "m2m"
    /\ rota_entregas' = [rota_entregas EXCEPT ![p.pk] = @ \cup {p.entrega_id}]
    /\ Segue(i, [p EXCEPT !.entrega = <<[p.entrega[1] EXCEPT !.rota = p.pk]>>,
                          !.pc = "entrega_save"])
    /\ UNCHANGED <<motoristas, veiculos, entregas, rotas, historico, now>>

\* remover_entrega: rota.entregas.get(id=entrega_id).
RemoverEntregaGet(i) ==
    LET p == pedidos[i] IN
    /\ p.op = "remover_entrega" /\ p.pc = "entrega_get"
    /\ IF p.entrega_id = None THEN Termina(i, 400, "obrigatorio")
       ELSE IF ~(p.entrega_id \in rota_entregas[p.pk] /\ EntregaExiste(p.entrega_id))
       THEN Termina(i, 404, "entrega")
       ELSE Segue(i, [p EXCEPT !.entrega = <<entregas[p.entrega_id]>>, !.pc = "m2m"])
    /\ UNCHANGED <<banco, now>>

\* rota.entregas.remove(entrega)
RemoverEntregaRemove(i) ==
    LET p == pedidos[i] IN
    /\ p.op = "remover_entrega" /\ p.pc = "m2m"
    /\ rota_entregas' = [rota_entregas EXCEPT ![p.pk] = @ \ {p.entrega_id}]
    /\ Segue(i, [p EXCEPT !.entrega = <<[p.entrega[1] EXCEPT !.rota = None]>>,
                          !.pc = "entrega_save"])
    /\ UNCHANGED <<motoristas, veiculos, entregas, rotas, historico, now>>

\* entrega.save(): every field of the Entrega object the view holds.
PedidoEntregaSave(i) ==
    LET p == pedidos[i] IN
    /\ p.op \in {"adicionar_entrega", "remover_entrega"} /\ p.pc = "entrega_save"
    /\ EntregaExiste(p.entrega_id)
    /\ entregas' = [entregas EXCEPT ![p.entrega_id] = EntregaSave(p.entrega[1])]
    /\ Segue(i, [p EXCEPT !.pc = "calcular"])
    /\ UNCHANGED <<motoristas, veiculos, rotas, rota_entregas, historico, now>>

\* rota.capacidade_total_utilizada = rota.calcular_capacidade_utilizada()
PedidoCalcular(i) ==
    LET p == pedidos[i] IN
    /\ p.op \in {"adicionar_entrega", "remover_entrega"} /\ p.pc = "calcular"
    /\ Segue(i, [p EXCEPT
                    !.rota = <<[p.rota[1] EXCEPT !.capacidade_total_utilizada =
                                   calcular_capacidade_utilizada(rota_entregas[p.pk],
                                                                 entregas)]>>,
                    !.pc = "save_calcular"])
    /\ UNCHANGED <<banco, now>>

\* iniciar_rota: the two guards, on the Rota object the view holds; reading
\* rota.motorista and rota.veiculo loads and keeps both rows.  Then the view
\* sets status and data_inicio on its object.
IniciarRotaVerificar(i) ==
    LET p == pedidos[i]
        rota == p.rota[1]
    IN
    /\ p.op = "iniciar_rota" /\ p.pc = "verificar"
    /\ IF IniciarRotaErro(rota) # "" THEN Termina(i, 400, IniciarRotaErro(rota))
       ELSE Segue(i, [p EXCEPT
                        !.motorista = <<motoristas[rota.motorista]>>,
                        !.veiculo = <<veiculos[rota.veiculo]>>,
                        !.rota = <<[rota EXCEPT !.status = "em_andamento",
                                                !.data_inicio = now]>>,
                        !.pc = "save_calcular"])
    /\ UNCHANGED <<banco, now>>

\* Rota.save, "if self.pk": the capacity is read from the m2m rows again.
RotaSaveCalcular(i) ==
    LET p == pedidos[i] IN
    /\ p.pc = "save_calcular"
    /\ Segue(i, [p EXCEPT
                    !.rota = <<RotaSaveCapacidade(p.rota[1], p.pk, rota_entregas[p.pk],
                                                  entregas)>>,
                    !.pc = "save_motorista"])
    /\ UNCHANGED <<banco, now>>

\* The status Rota.save pushes onto the driver and the vehicle; "" for none.
RotaSaveStatusMotorista(rota) ==
    IF rota.status = "em_andamento" THEN "em_rota"
    ELSE IF rota.status = "concluida" THEN "disponivel"
    ELSE ""

RotaSaveStatusVeiculo(rota) ==
    IF rota.status = "em_andamento" THEN "em_uso"
    ELSE IF rota.status = "concluida" THEN "disponivel"
    ELSE ""

\* Rota.save: self.motorista.status = ...; self.motorista.save(), on the
\* Motorista object the Rota object holds (read now when it holds none).
RotaSaveMotorista(i) ==
    LET p == pedidos[i]
        rota == p.rota[1]
    IN
    /\ p.pc = "save_motorista"
    /\ IF /\ RotaSaveStatusMotorista(rota) # ""
          /\ rota.motorista # None
          /\ rota.motorista \in DOMAIN motoristas
       THEN LET obj == IF p.motorista = <<>> THEN motoristas[rota.motorista]
                       ELSE p.motorista[1]
                novo == [obj EXCEPT !.status = RotaSaveStatusMotorista(rota)]
            IN  /\ motoristas' = [motoristas EXCEPT ![rota.motorista] = novo]
                /\ Segue(i, [p EXCEPT !.motorista = <<novo>>, !.pc = "save_veiculo"])
       ELSE /\ UNCHANGED motoristas
            /\ Segue(i, [p EXCEPT !.pc = "save_veiculo"])
    /\ UNCHANGED <<veiculos, entregas, rotas, rota_entregas, historico, now>>

\* Rota.save: self.veiculo.status = ...; self.veiculo.save().
RotaSaveVeiculo(i) ==
    LET p == pedidos[i]
        rota == p.rota[1]
    IN
    /\ p.pc = "save_veiculo"
    /\ IF /\ RotaSaveStatusVeiculo(rota) # ""
          /\ rota.veiculo # None
          /\ rota.veiculo \in DOMAIN veiculos
       THEN LET obj == IF p.veiculo = <<>> THEN veiculos[rota.veiculo]
                       ELSE p.veiculo[1]
                novo == [obj EXCEPT !.status = RotaSaveStatusVeiculo(rota)]
            IN  /\ veiculos' = [veiculos EXCEPT ![rota.veiculo] = novo]
                /\ Segue(i, [p EXCEPT !.veiculo = <<novo>>, !.pc = "save_super"])
       ELSE /\ UNCHANGED veiculos
            /\ Segue(i, [p EXCEPT !.pc = "save_super"])
    /\ UNCHANGED <<motoristas, entregas, rotas, rota_entregas, historico, now>>

\* Rota.save: super().save(), an UPDATE of every column from the Rota object
\* the view holds.  adicionar_entrega and remover_entrega answer after it;
\* iniciar_rota goes on to its deliveries.
RotaSaveSuper(i) ==
    LET p == pedidos[i] IN
    /\ p.pc = "save_super"
    /\ rotas' = [rotas EXCEPT ![p.pk] = p.rota[1]]
    /\ IF p.op = "iniciar_rota"
       THEN Segue(i, [p EXCEPT !.pc = "update"])
       ELSE Termina(i, 200, "")
    /\ UNCHANGED <<motoristas, veiculos, entregas, rota_entregas, historico, now>>

\* iniciar_rota: rota.entregas.filter(status='pendente').update(...)
IniciarRotaUpdate(i) ==
    LET p == pedidos[i] IN
    /\ p.op = "iniciar_rota" /\ p.pc = "update"
    /\ entregas' = IniciarRotaEntregas(rota_entregas[p.pk], entregas)
    /\ Termina(i, 200, "")
    /\ UNCHANGED <<motoristas, veiculos, rotas, rota_entregas, historico, now>>

\* ------------------------------------------------------------------ clock
\* Time passes between requests.
Tick ==
    /\ now < MaxTime
    /\ now' = now + 1
    /\ UNCHANGED <<banco, resposta, pedidos>>

\* ---------------------------------------------------------- specifications
\* Primary keys a request may name: every route slot, and for deliveries also
\* a missing id (None) and an id that matches no row.
RotaPks == 1..NumRotas
EntregaIds == 0..(NumEntregas + 1)

\* Capacity: the operations that change a route's delivery set or vehicle.
NextCapacidade ==
    \/ \E a \in Atores, v \in Veiculos \cup {None},
          ids \in SUBSET Entregas, raw \in SUBSET Entregas :
            RotaCreate(a, "planejada", None, v, ids, raw)
    \/ \E a \in Atores, pk \in RotaPks, v \in Veiculos \cup {None} :
            RotaPartialUpdate(a, pk, OmitidoS, Omitido, v)
    \/ \E a \in Atores, pk \in RotaPks, e \in EntregaIds : AdicionarEntrega(a, pk, e)
    \/ \E a \in Atores, pk \in RotaPks, e \in EntregaIds : RemoverEntrega(a, pk, e)

SpecCapacidade == Init /\ [][NextCapacidade]_vars

\* Delivery lifecycle: drivers are put on deliveries with and without a
\* history row, and administrators and drivers request status updates.
NextEntrega ==
    \/ \E a \in Atores, e \in Entregas, m \in Motoristas \cup {None} :
            AtribuirMotorista(a, e, m)
    \/ \E e \in Entregas, m \in Motoristas \cup {None} :
            EntregaPartialUpdate(Admin, e, OmitidoS, m, Omitido, Omitido)
    \/ \E a \in Atores, e \in Entregas, s \in StatusEntrega \cup {"invalido"} :
            AtualizarStatus(a, e, s)

SpecEntrega == Init /\ [][NextEntrega]_vars

\* Delivery timestamps: status written through update-status and through the
\* generic update, while time passes.  The code compares a status with
\* 'entregue' only, so two other statuses stand for the rest.
StatusTempo == {"pendente", "em_transito", "entregue"}

NextTempo ==
    \/ \E e \in Entregas, s \in StatusTempo : AtualizarStatus(Admin, e, s)
    \/ \E e \in Entregas, s \in StatusTempo :
            EntregaPartialUpdate(Admin, e, s, Omitido, Omitido, Omitido)
    \/ Tick

SpecTempo == Init /\ [][NextTempo]_vars

\* Route start: routes are created planned or cancelled, with or without
\* driver and vehicle, and get deliveries of any status.
NextRota ==
    \/ \E st \in {"planejada", "cancelada"}, m \in Motoristas \cup {None},
          v \in Veiculos \cup {None}, ids \in SUBSET Entregas :
            RotaCreate(Admin, st, m, v, ids, {})
    \/ \E pk \in RotaPks, e \in Entregas : AdicionarEntrega(Admin, pk, e)
    \/ \E a \in Atores, pk \in RotaPks : IniciarRota(a, pk)
    \/ \E e \in Entregas :
            EntregaPartialUpdate(Admin, e, "cancelada", Omitido, Omitido, Omitido)

SpecRota == Init /\ [][NextRota]_vars

\* Delivery creation: any actor posts a delivery with or without a client,
\* with an expected date before, on or after the current date, onto no route
\* or onto a route; time passes.
DatasPrevistas == 0..MaxTime
CapacidadesPedidas == 0..2

NextCriacao ==
    \/ \E a \in Atores, cliente \in {Omitido, 1}, d \in DatasPrevistas,
          c \in CapacidadesPedidas, r \in {None} \cup RotaPks :
            EntregaCreate(a, cliente, d, c, r)
    \/ \E v \in Veiculos : RotaCreate(Admin, "planejada", None, v, {}, {})
    \/ Tick

SpecCriacao == Init /\ [][NextCriacao]_vars

\* Public tracking: deliveries get history rows, are deleted and created,
\* and anyone looks codes up: no code, codes in either case, unknown codes.
Simbolos == 1..(NumEntregas + MaxCriadas + 1)
CodigosPedidos ==
    {<<>>} \cup {<<[simbolo |-> n, maiuscula |-> b]>> : n \in Simbolos, b \in BOOLEAN}

NextRastreio ==
    \/ \E e \in Entregas, m \in Motoristas : AtribuirMotorista(Admin, e, m)
    \/ \E e \in Entregas : AtualizarStatus(Admin, e, "em_transito")
    \/ \E e \in Entregas : EntregaDestroy(Admin, e)
    \/ EntregaCreate(Admin, 1, MaxTime, 1, None)
    \/ \E a \in Atores \cup {Anonimo}, codigo \in CodigosPedidos : PorCodigoRastreio(a, codigo)

SpecRastreio == Init /\ [][NextRastreio]_vars

\* Route lifecycle: routes are created with any status, updated to any
\* status through the generic endpoint, started and completed.
NextCiclo ==
    \/ \E st \in StatusRota, m \in {None, 1}, v \in {None, 1} :
            RotaCreate(Admin, st, m, v, {}, {})
    \/ \E a \in Atores, pk \in RotaPks, st \in StatusRota :
            RotaPartialUpdate(a, pk, st, Omitido, Omitido)
    \/ \E a \in Atores, pk \in RotaPks : IniciarRota(a, pk)
    \/ \E a \in Atores, pk \in RotaPks : ConcluirRota(a, pk, Omitido)

SpecCiclo == Init /\ [][NextCiclo]_vars

\* Saving a route: every operation that saves a Rota row, on routes of any
\* status that share a driver and may share a vehicle.
NextSalvar ==
    \/ \E v \in Veiculos : RotaCreate(Admin, "planejada", 1, v, {}, {})
    \/ \E pk \in RotaPks, st \in StatusRota :
            RotaPartialUpdate(Admin, pk, st, Omitido, Omitido)
    \/ \E pk \in RotaPks : AdicionarEntrega(Admin, pk, 1)
    \/ \E pk \in RotaPks : RemoverEntrega(Admin, pk, 1)
    \/ \E pk \in RotaPks : IniciarRota(Admin, pk)
    \/ \E pk \in RotaPks : ConcluirRota(Admin, pk, Omitido)

SpecSalvar == Init /\ [][NextSalvar]_vars

\* Concurrent additions: a route with a vehicle, and add-delivery requests
\* whose statements interleave.
NextCorrida ==
    \/ \E v \in Veiculos : RotaCreate(Admin, "planejada", 1, v, {}, {})
    \/ \E i \in Pedidos, a \in Atores, pk \in RotaPks, e \in EntregaIds :
            GetObject(i, a, "adicionar_entrega", pk, e)
    \/ \E i \in Pedidos : AdicionarEntregaGet(i)
    \/ \E i \in Pedidos : AdicionarEntregaVerificar(i)
    \/ \E i \in Pedidos : AdicionarEntregaAdd(i)
    \/ \E i \in Pedidos : PedidoEntregaSave(i)
    \/ \E i \in Pedidos : PedidoCalcular(i)
    \/ \E i \in Pedidos : RotaSaveCalcular(i)
    \/ \E i \in Pedidos : RotaSaveMotorista(i)
    \/ \E i \in Pedidos : RotaSaveVeiculo(i)
    \/ \E i \in Pedidos : RotaSaveSuper(i)

SpecCorrida == Init /\ [][NextCorrida]_vars

\* Routes in progress: planned routes with a driver and a vehicle are
\* started, completed, filled and emptied, and drivers get vehicles assigned.
NextEmRota ==
    \/ \E v \in Veiculos : RotaCreate(Admin, "planejada", 1, v, {}, {})
    \/ \E pk \in RotaPks : IniciarRota(Admin, pk)
    \/ \E pk \in RotaPks : ConcluirRota(Admin, pk, Omitido)
    \/ \E pk \in RotaPks : AdicionarEntrega(Admin, pk, 1)
    \/ \E pk \in RotaPks : RemoverEntrega(Admin, pk, 1)
    \/ \E m \in Motoristas, v \in Veiculos : AtribuirVeiculo(Admin, m, v)

SpecEmRota == Init /\ [][NextEmRota]_vars

\* Route membership: deliveries enter a route at its creation, through
\* add-delivery and through the delivery's own rota field, and leave it
\* through remove-delivery.
NextMembros ==
    \/ \E ids \in SUBSET Entregas : RotaCreate(Admin, "planejada", None, None, ids, {})
    \/ \E pk \in RotaPks, e \in Entregas : AdicionarEntrega(Admin, pk, e)
    \/ \E pk \in RotaPks, e \in Entregas : RemoverEntrega(Admin, pk, e)
    \/ \E e \in Entregas, r \in {None} \cup RotaPks :
            EntregaPartialUpdate(Admin, e, OmitidoS, Omitido, Omitido, r)

SpecMembros == Init /\ [][NextMembros]_vars

\* Concurrent start: a planned route with driver and vehicle, and a start
\* request whose statements interleave with those of an add-delivery or a
\* remove-delivery request.
OpsPartida == {"iniciar_rota", "adicionar_entrega", "remover_entrega"}

NextPartida ==
    \/ \E ids \in {{}, {1}} : RotaCreate(Admin, "planejada", 1, 1, ids, {})
    \/ \E i \in Pedidos, op \in OpsPartida, pk \in RotaPks :
            GetObject(i, Admin, op, pk, 1)
    \/ \E i \in Pedidos : IniciarRotaVerificar(i)
    \/ \E i \in Pedidos : AdicionarEntregaGet(i)
    \/ \E i \in Pedidos : AdicionarEntregaVerificar(i)
    \/ \E i \in Pedidos : AdicionarEntregaAdd(i)
    \/ \E i \in Pedidos : RemoverEntregaGet(i)
    \/ \E i \in Pedidos : RemoverEntregaRemove(i)
    \/ \E i \in Pedidos : PedidoEntregaSave(i)
    \/ \E i \in Pedidos : PedidoCalcular(i)
    \/ \E i \in Pedidos : RotaSaveCalcular(i)
    \/ \E i \in Pedidos : RotaSaveMotorista(i)
    \/ \E i \in Pedidos : RotaSaveVeiculo(i)
    \/ \E i \in Pedidos : RotaSaveSuper(i)
    \/ \E i \in Pedidos : IniciarRotaUpdate(i)

SpecPartida == Init /\ [][NextPartida]_vars

\* Load of a route: routes get deliveries, and member deliveries are deleted
\* or get another required capacity through the delivery endpoints.
NextCarga ==
    \/ \E v \in {None, 1}, ids \in SUBSET Entregas :
            RotaCreate(Admin, "planejada", None, v, ids, {})
    \/ \E pk \in RotaPks, e \in EntregaIds : AdicionarEntrega(Admin, pk, e)
    \/ \E a \in Atores, e \in EntregaIds : EntregaDestroy(a, e)
    \/ \E e \in Entregas, c \in {1, 2} :
            EntregaPartialUpdate(Admin, e, OmitidoS, Omitido, c, Omitido)

SpecCarga == Init /\ [][NextCarga]_vars

\* The whole API surface modelled here.
\* Route completion: routes are created, started, cancelled and completed
\* with and without a distance.
KmPedidos == {Omitido, 1, 2}

NextConclusao ==
    \/ \E m \in Motoristas \cup {None}, v \in Veiculos \cup {None} :
            RotaCreate(Admin, "planejada", m, v, {}, {})
    \/ \E pk \in RotaPks : RotaPartialUpdate(Admin, pk, "cancelada", Omitido, Omitido)
    \/ \E a \in Atores, pk \in RotaPks : IniciarRota(a, pk)
    \/ \E a \in Atores, pk \in RotaPks, km \in KmPedidos : ConcluirRota(a, pk, km)

SpecConclusao == Init /\ [][NextConclusao]_vars

\* Ownership: the administrator assigns deliveries and routes to drivers,
\* and administrators and drivers update deliveries and start and complete
\* routes, their own and those of others.
NextPropriedade ==
    \/ \E e \in Entregas, m \in Motoristas :
            EntregaPartialUpdate(Admin, e, OmitidoS, m, Omitido, Omitido)
    \/ \E m \in Motoristas : RotaCreate(Admin, "planejada", m, 1, {}, {})
    \/ \E a \in Atores, e \in Entregas : AtualizarStatus(a, e, "em_transito")
    \/ \E a \in Atores, pk \in RotaPks : IniciarRota(a, pk)
    \/ \E a \in Atores, pk \in RotaPks : ConcluirRota(a, pk, Omitido)

SpecPropriedade == Init /\ [][NextPropriedade]_vars

\* Driver assignment: routes are created and started, which puts their
\* driver en route, and the administrator assigns drivers, existing or not,
\* to deliveries whose status he also changes.
MotoristaIds == 0..(NumMotoristas + 1)

NextAtribuicao ==
    \/ \E m \in Motoristas : RotaCreate(Admin, "planejada", m, 1, {}, {})
    \/ \E pk \in RotaPks : IniciarRota(Admin, pk)
    \/ \E e \in Entregas : AtualizarStatus(Admin, e, "em_transito")
    \/ \E a \in Atores, e \in Entregas, m \in MotoristaIds : AtribuirMotorista(a, e, m)

SpecAtribuicao == Init /\ [][NextAtribuicao]_vars

\* Vehicles: the administrator hands vehicles to drivers, and routes that
\* use the vehicles are created, started and completed.
VeiculoIds == 0..(NumVeiculos + 1)

NextVeiculo ==
    \/ \E a \in Atores, m \in MotoristaIds, v \in VeiculoIds : AtribuirVeiculo(a, m, v)
    \/ \E v \in Veiculos : RotaCreate(Admin, "planejada", 1, v, {}, {})
    \/ \E pk \in RotaPks : IniciarRota(Admin, pk)
    \/ \E pk \in RotaPks : ConcluirRota(Admin, pk, Omitido)

SpecVeiculo == Init /\ [][NextVeiculo]_vars

\* History: the administrator assigns drivers and changes statuses, which
\* writes history rows, and deletes deliveries and drivers.
NextHistorico ==
    \/ \E e \in Entregas, m \in Motoristas : AtribuirMotorista(Admin, e, m)
    \/ \E e \in Entregas, s \in {"em_transito", "entregue"} : AtualizarStatus(Admin, e, s)
    \/ \E a \in Atores, e \in EntregaIds : EntregaDestroy(a, e)
    \/ \E a \in Atores, m \in MotoristaIds : MotoristaDestroy(a, m)

SpecHistorico == Init /\ [][NextHistorico]_vars

\* Transactions: routes are created, filled, started and completed, and
\* any of these requests may fail at any of its writes.
Escritas == 0..4

NextTransacao ==
    \/ \E v \in Veiculos, ids \in SUBSET Entregas :
            RotaCreate(Admin, "planejada", 1, v, ids, {})
    \/ \E pk \in RotaPks, e \in Entregas : AdicionarEntrega(Admin, pk, e)
    \/ \E pk \in RotaPks, e \in Entregas : RemoverEntrega(Admin, pk, e)
    \/ \E pk \in RotaPks : IniciarRota(Admin, pk)
    \/ \E pk \in RotaPks : ConcluirRota(Admin, pk, 1)
    \/ \E a \in Atores, pk \in RotaPks, k \in Escritas : IniciarRotaFalha(a, pk, k)
    \/ \E a \in Atores, pk \in RotaPks, k \in Escritas : ConcluirRotaFalha(a, pk, 1, k)
    \/ \E pk \in RotaPks, e \in Entregas, k \in Escritas :
            AdicionarEntregaFalha(Admin, pk, e, k)
    \/ \E pk \in RotaPks, e \in Entregas, k \in Escritas :
            RemoverEntregaFalha(Admin, pk, e, k)

SpecTransacao == Init /\ [][NextTransacao]_vars

Next ==
    \/ \E a \in Atores, st \in StatusRota, m \in Motoristas \cup {None},
          v \in Veiculos \cup {None}, ids \in SUBSET Entregas, raw \in SUBSET Entregas :
            RotaCreate(a, st, m, v, ids, raw)
    \/ \E a \in Atores, pk \in RotaPks, st \in StatusRota \cup {OmitidoS},
          m \in Motoristas \cup {None, Omitido}, v \in Veiculos \cup {None, Omitido} :
            RotaPartialUpdate(a, pk, st, m, v)
    \/ \E a \in Atores, pk \in RotaPks, e \in EntregaIds : AdicionarEntrega(a, pk, e)
    \/ \E a \in Atores, pk \in RotaPks, e \in EntregaIds : RemoverEntrega(a, pk, e)
    \/ \E a \in Atores, pk \in RotaPks : IniciarRota(a, pk)
    \/ \E a \in Atores, pk \in RotaPks, km \in KmPedidos : ConcluirRota(a, pk, km)
    \/ \E a \in Atores, m \in MotoristaIds, v \in VeiculoIds : AtribuirVeiculo(a, m, v)
    \/ \E a \in Atores, e \in EntregaIds : EntregaDestroy(a, e)
    \/ \E a \in Atores, cliente \in {Omitido, 1}, d \in DatasPrevistas,
          c \in CapacidadesPedidas, r \in {None} \cup RotaPks :
            EntregaCreate(a, cliente, d, c, r)
    \/ \E a \in Atores \cup {Anonimo}, codigo \in CodigosPedidos : PorCodigoRastreio(a, codigo)
    \/ \E a \in Atores, m \in MotoristaIds : MotoristaDestroy(a, m)
    \/ \E a \in Atores, pk \in RotaPks, k \in Escritas : IniciarRotaFalha(a, pk, k)
    \/ \E a \in Atores, pk \in RotaPks, km \in KmPedidos, k \in Escritas :
            ConcluirRotaFalha(a, pk, km, k)
    \/ \E a \in Atores, pk \in RotaPks, e \in EntregaIds, k \in Escritas :
            AdicionarEntregaFalha(a, pk, e, k)
    \/ \E a \in Atores, pk \in RotaPks, e \in EntregaIds, k \in Escritas :
            RemoverEntregaFalha(a, pk, e, k)
    \/ \E a \in Atores, e \in Entregas, s \in StatusEntrega \cup {"invalido"} :
            AtualizarStatus(a, e, s)
    \/ \E a \in Atores, e \in Entregas, m \in MotoristaIds :
            AtribuirMotorista(a, e, m)
    \/ \E a \in Atores, e \in Entregas, s \in StatusEntrega \cup {OmitidoS},
          m \in Motoristas \cup {None, Omitido}, c \in {Omitido, 1, 2},
          r \in RotaPks \cup {None, Omitido} :
            EntregaPartialUpdate(a, e, s, m, c, r)
    \/ \E i \in Pedidos, a \in Atores, op \in OpsPartida, pk \in RotaPks, e \in EntregaIds :
            GetObject(i, a, op, pk, e)
    \/ \E i \in Pedidos : IniciarRotaVerificar(i)
    \/ \E i \in Pedidos : AdicionarEntregaGet(i)
    \/ \E i \in Pedidos : AdicionarEntregaVerificar(i)
    \/ \E i \in Pedidos : AdicionarEntregaAdd(i)
    \/ \E i \in Pedidos : RemoverEntregaGet(i)
    \/ \E i \in Pedidos : RemoverEntregaRemove(i)
    \/ \E i \in Pedidos : PedidoEntregaSave(i)
    \/ \E i \in Pedidos : PedidoCalcular(i)
    \/ \E i \in Pedidos : RotaSaveCalcular(i)
    \/ \E i \in Pedidos : RotaSaveMotorista(i)
    \/ \E i \in Pedidos : RotaSaveVeiculo(i)
    \/ \E i \in Pedidos : RotaSaveSuper(i)
    \/ \E i \in Pedidos : IniciarRotaUpdate(i)
    \/ Tick

Spec == Init /\ [][Next]_vars

\* ------------------------------------------------------------------ claims
\* What a vehicle may carry.
CapacidadeMaxima(rota) == veiculos[rota.veiculo].capacidade_maxima

\* C1: in every reachable state, every route that has a vehicle assigned has
\* utilized capacity at most the vehicle's maximum capacity.
C1_CapacidadeDentroDoVeiculo ==
    \A pk \in DOMAIN rotas :
        rotas[pk].veiculo # None
            => rotas[pk].capacidade_total_utilizada <= CapacidadeMaxima(rotas[pk])

\* C2: after every operation that mutates a route's delivery set (creation,
\* add-delivery, remove-delivery), the stored utilized capacity of that route
\* equals the sum of required capacity over the deliveries now in the set.
C2_CapacidadeIgualSoma ==
    [][\A pk \in DOMAIN rotas' :
        (pk \notin DOMAIN rotas \/ rota_entregas'[pk] # rota_entregas[pk])
            => rotas'[pk].capacidade_total_utilizada
                   = Sum(rota_entregas'[pk], entregas')]_vars

\* C2 happens: a route was created with two deliveries, and a removal left a
\* route with one delivery.
C2_Witness ==
    /\ resposta = Response("remover_entrega", 200, "")
    /\ \E pk \in DOMAIN rotas :
        /\ Cardinality(rota_entregas[pk]) = 1
        /\ rotas[pk].capacidade_total_utilizada = 2

\* C3: an add-delivery on a route with a vehicle whose stored load plus the
\* delivery exceeds the vehicle's maximum is rejected, and the route's
\* delivery set, its utilized capacity and the delivery's route are unchanged.
C3_AdicaoRejeitada ==
    [][\A a \in Atores, pk \in RotaPks, e \in Entregas :
        (/\ RotaExiste(pk)
         /\ rotas[pk].veiculo # None
         /\ rotas[pk].capacidade_total_utilizada + entregas[e].capacidade_necessaria
                > CapacidadeMaxima(rotas[pk])
         /\ AdicionarEntrega(a, pk, e))
            => /\ resposta'.status >= 400
               /\ UNCHANGED <<rota_entregas, rotas, entregas>>]_vars

\* C3 happens: on a vehicle for 3 units a delivery of 2 was added, and the
\* administrator's next delivery of 2 was refused for capacity.
C3_Witness ==
    /\ resposta = Response("adicionar_entrega", 400, "capacidade")
    /\ \E pk \in DOMAIN rotas :
        /\ rotas[pk].veiculo # None
        /\ CapacidadeMaxima(rotas[pk]) = 3
        /\ rotas[pk].capacidade_total_utilizada = 2
        /\ Cardinality(rota_entregas[pk]) = 1

\* The requests update-status is checked with.
StatusPedidos == StatusEntrega \cup {"invalido"}

\* The last row of a delivery's history.
UltimoHistorico(e) == historico[e][Len(historico[e])]

\* C4: every accepted update-status request appends exactly one history row
\* to the delivery, with previous = the status before the request and new =
\* the requested status; a rejected request appends none and leaves the
\* delivery's status unchanged.
C4_HistoricoPorAtualizacao ==
    [][\A a \in Atores, e \in Entregas, s \in StatusPedidos :
        AtualizarStatus(a, e, s) =>
            IF resposta'.status = 200
            THEN /\ Len(historico'[e]) = Len(historico[e]) + 1
                 /\ SubSeq(historico'[e], 1, Len(historico[e])) = historico[e]
                 /\ historico'[e][Len(historico'[e])].status_anterior = entregas[e].status
                 /\ historico'[e][Len(historico'[e])].status_novo = s
                 /\ entregas'[e].status = s
                 /\ \A o \in Entregas \ {e} : historico'[o] = historico[o]
            ELSE /\ historico' = historico
                 /\ entregas'[e].status = entregas[e].status]_vars

\* C4 happens: an accepted update wrote the row em_transito -> entregue
\* after an earlier row.
C4_Witness ==
    /\ resposta = Response("atualizar_status", 200, "")
    /\ \E e \in Entregas :
        /\ Len(historico[e]) = 2
        /\ UltimoHistorico(e).status_anterior = "em_transito"
        /\ UltimoHistorico(e).status_novo = "entregue"
        /\ entregas[e].status = "entregue"

\* C6 as stated: for a driver and any delivery that is pending, in transit or
\* rescheduled, update-status is accepted if and only if the pair
\* (current, new) is one of the four listed.
C6_Original ==
    [][LET listadas == {<<"pendente", "em_transito">>, <<"em_transito", "entregue">>,
                      <<"em_transito", "remarcada">>, <<"remarcada", "em_transito">>}
           abertos == {"pendente", "em_transito", "remarcada"}
       IN
       \A a \in Motoristas, e \in Entregas, s \in StatusPedidos :
        (entregas[e].status \in abertos /\ AtualizarStatus(a, e, s))
            => (resposta'.status = 200
                    <=> <<entregas[e].status, s>> \in listadas)]_vars

\* C6, for a delivery assigned to the driver who asks: update-status on a
\* pending, in-transit or rescheduled delivery is accepted if and only if
\* the pair (current, new) is one of the four listed.
C6_TransicoesDoMotorista ==
    [][LET listadas == {<<"pendente", "em_transito">>, <<"em_transito", "entregue">>,
                      <<"em_transito", "remarcada">>, <<"remarcada", "em_transito">>}
           abertos == {"pendente", "em_transito", "remarcada"}
       IN
       \A a \in Motoristas, e \in Entregas, s \in StatusPedidos :
        (/\ entregas[e].motorista = a
         /\ entregas[e].status \in abertos
         /\ AtualizarStatus(a, e, s))
            => (resposta'.status = 200
                    <=> <<entregas[e].status, s>> \in listadas)]_vars

\* C6 happens: a driver's delivery went pendente -> em_transito and the next
\* request on it was refused as a transition.
C6_Witness ==
    /\ resposta = Response("atualizar_status", 400, "transicao")
    /\ \E e \in Entregas :
        /\ entregas[e].motorista \in Motoristas
        /\ entregas[e].status = "em_transito"
        /\ Len(historico[e]) = 1
        /\ UltimoHistorico(e).status_anterior = "pendente"

\* C7: for a driver, a delivery that is delivered or cancelled has no
\* permitted target: every update-status request is rejected and the
\* delivery's status and history are unchanged.
C7_TerminalRejeitado ==
    [][\A a \in Motoristas, e \in Entregas, s \in StatusPedidos :
        (entregas[e].status \in {"entregue", "cancelada"} /\ AtualizarStatus(a, e, s))
            => /\ resposta'.status >= 400
               /\ UNCHANGED <<entregas, historico>>]_vars

\* C8: a delivery's data_entrega_real is unset until the delivery first
\* becomes entregue, is set (to the time of the request) at that transition,
\* and no later operation changes or clears it, a second transition to
\* entregue included.
C8_DataEntregaRealUmaVez ==
    /\ [](\A e \in Entregas :
            entregas[e].status = "entregue" => entregas[e].data_entrega_real # None)
    /\ [][\A e \in Entregas :
            LET antes == entregas[e].data_entrega_real
                depois == entregas'[e].data_entrega_real
            IN  /\ antes # None => depois = antes
                /\ (antes = None /\ depois # None)
                        => /\ entregas[e].status # "entregue"
                           /\ entregas'[e].status = "entregue"
                           /\ depois = now
                /\ (antes = None /\ entregas'[e].status = "entregue")
                        => depois = now]_vars

\* C8 happens: a delivery was delivered at time 1, moved back to pendente,
\* and delivered again at time 2; the stored time is still 1.
C8_Witness ==
    /\ now = 2
    /\ \E e \in Entregas :
        /\ entregas[e].status = "entregue"
        /\ entregas[e].data_entrega_real = 1
        /\ Len(historico[e]) = 2
        /\ historico[e][1].status_novo = "entregue"
        /\ historico[e][2].status_anterior = "pendente"
        /\ historico[e][2].status_novo = "entregue"

\* C5: every change of a delivery's status, whatever operation causes it, is
\* accompanied by exactly one new history row of that delivery recording
\* the previous -> new pair.
C5_HistoricoPorMudanca ==
    [][\A e \in Entregas :
        entregas'[e].status # entregas[e].status
            => /\ Len(historico'[e]) = Len(historico[e]) + 1
               /\ historico'[e][Len(historico'[e])].status_anterior = entregas[e].status
               /\ historico'[e][Len(historico'[e])].status_novo = entregas'[e].status]_vars

\* C9: starting a route that is not planejada, or has no driver, or has no
\* vehicle is rejected, and the route, the drivers, the vehicles and the
\* deliveries are left as they were.
C9_InicioRejeitado ==
    [][\A a \in Atores, pk \in RotaPks :
        (/\ RotaExiste(pk)
         /\ \/ rotas[pk].status # "planejada"
            \/ rotas[pk].motorista = None
            \/ rotas[pk].veiculo = None
         /\ IniciarRota(a, pk))
            => /\ resposta'.status >= 400
               /\ UNCHANGED <<rotas, rota_entregas, motoristas, veiculos, entregas>>]_vars

\* C9 happens: a start was refused for a planned route with deliveries that
\* lacks a driver or a vehicle.
C9_Witness ==
    /\ resposta = Response("iniciar_rota", 400, "atribuicao")
    /\ \E pk \in DOMAIN rotas :
        /\ rotas[pk].status = "planejada"
        /\ rotas[pk].motorista # None
        /\ rotas[pk].veiculo = None
        /\ rota_entregas[pk] # {}

\* C10: after a successful start the route is em_andamento with data_inicio
\* set, its driver is em_rota, its vehicle is em_uso, every delivery of the
\* route that was pendente is em_transito and every other delivery of the
\* route keeps its status.
C10_InicioComSucesso ==
    [][\A a \in Atores, pk \in RotaPks :
        (IniciarRota(a, pk) /\ resposta'.status = 200)
            => /\ rotas'[pk].status = "em_andamento"
               /\ rotas'[pk].data_inicio = now
               /\ rotas'[pk].data_inicio # None
               /\ motoristas'[rotas[pk].motorista].status = "em_rota"
               /\ veiculos'[rotas[pk].veiculo].status = "em_uso"
               /\ \A e \in rota_entregas[pk] :
                    entregas'[e].status =
                        IF entregas[e].status = "pendente" THEN "em_transito"
                        ELSE entregas[e].status]_vars

\* C10 happens: a route was started whose deliveries were one pendente, now
\* em_transito, and one cancelada, still cancelada.
C10_Witness ==
    /\ resposta = Response("iniciar_rota", 200, "")
    /\ \E pk \in DOMAIN rotas :
        /\ rotas[pk].status = "em_andamento"
        /\ motoristas[rotas[pk].motorista].status = "em_rota"
        /\ veiculos[rotas[pk].veiculo].status = "em_uso"
        /\ \E e1, e2 \in rota_entregas[pk] :
            /\ entregas[e1].status = "em_transito"
            /\ entregas[e2].status = "cancelada"

\* C11: completing a route that is not em_andamento (planned, completed or
\* cancelled) is rejected, and the route's status and timestamps, the
\* vehicles' odometer and status and the drivers' status are left unchanged.
C11_ConclusaoRejeitada ==
    [][\A a \in Atores, pk \in RotaPks, km \in KmPedidos :
        (/\ RotaExiste(pk)
         /\ rotas[pk].status # "em_andamento"
         /\ ConcluirRota(a, pk, km))
            => /\ resposta'.status >= 400
               /\ UNCHANGED <<rotas, veiculos, motoristas>>]_vars

\* C11 happens: a second completion of a completed route was refused.
C11_Witness ==
    /\ resposta = Response("concluir_rota", 400, "status")
    /\ \E pk \in DOMAIN rotas :
        /\ rotas[pk].status = "concluida"
        /\ rotas[pk].km_total_real = 2
        /\ veiculos[rotas[pk].veiculo].km_atual = 2

C13_SomenteOsProprios ==
    [][/\ \A a \in Atores, e \in Entregas, s \in StatusPedidos :
            (resposta'.op = "atualizar_status" /\ AtualizarStatus(a, e, s)) =>
                /\ (a # Admin /\ entregas[e].motorista # a)
                        => (resposta'.status \in {403, 404} /\ UNCHANGED banco)
                /\ a = Admin => resposta'.status \notin {403, 404}
       /\ \A a \in Atores, pk \in DOMAIN rotas, km \in KmPedidos :
            (\/ resposta'.op = "iniciar_rota" /\ IniciarRota(a, pk)
             \/ resposta'.op = "concluir_rota" /\ ConcluirRota(a, pk, km)) =>
                /\ (a # Admin /\ rotas[pk].motorista # a)
                        => (resposta'.status \in {403, 404} /\ UNCHANGED banco)
                /\ a = Admin => resposta'.status \notin {403, 404}]_vars

\* C13 happens: a driver was refused on another driver's route that is
\* under way, while a delivery of that other driver is in transit.
C13_Witness ==
    /\ resposta = Response("concluir_rota", 404, "rota")
    /\ \E pk \in DOMAIN rotas, e \in Entregas :
        /\ rotas[pk].status = "em_andamento"
        /\ rotas[pk].motorista \in Motoristas
        /\ entregas[e].motorista = rotas[pk].motorista
        /\ entregas[e].status = "em_transito"

\* C14: assigning a driver to a delivery fails if and only if the driver
\* does not exist or is neither ativo nor disponivel, and then the
\* delivery's driver and the history are unchanged; on success the delivery
\* has that driver, keeps its status, and gains exactly one history row
\* whose previous and new status are both the delivery's status.
C14_AtribuirMotorista ==
    [][\A e \in Entregas, m \in MotoristaIds :
        (resposta'.op = "atribuir_motorista" /\ AtribuirMotorista(Admin, e, m)) =>
            IF m \notin Motoristas \/ motoristas[m].status \notin {"ativo", "disponivel"}
            THEN /\ resposta'.status >= 400
                 /\ entregas'[e].motorista = entregas[e].motorista
                 /\ historico' = historico
            ELSE /\ resposta'.status = 200
                 /\ entregas'[e].motorista = m
                 /\ entregas'[e].status = entregas[e].status
                 /\ Len(historico'[e]) = Len(historico[e]) + 1
                 /\ SubSeq(historico'[e], 1, Len(historico[e])) = historico[e]
                 /\ historico'[e][Len(historico'[e])].status_anterior = entregas[e].status
                 /\ historico'[e][Len(historico'[e])].status_novo = entregas[e].status
                 /\ \A o \in Entregas \ {e} : historico'[o] = historico[o]]_vars

\* C14 happens: a delivery in transit holds the assignment row of its
\* driver, and the assignment of a driver who is en route was refused.
C14_Witness ==
    /\ resposta = Response("atribuir_motorista", 400, "motorista")
    /\ \E m \in Motoristas : motoristas[m].status = "em_rota"
    /\ \E e \in Entregas :
        /\ entregas[e].motorista \in Motoristas
        /\ entregas[e].status = "em_transito"
        /\ Len(historico[e]) = 2
        /\ UltimoHistorico(e).status_anterior = "em_transito"
        /\ UltimoHistorico(e).status_novo = "em_transito"

\* C15: assign-vehicle succeeds only for a vehicle that is disponivel and
\* leaves it em_uso with the driver as motorista_atual, the vehicle the
\* driver held in use being released; so, after any sequence of
\* assign-vehicle, start and complete, no driver is motorista_atual of more
\* than one vehicle in use, and assign-vehicle never fails because the
\* driver holds several.
C15_UmVeiculoEmUsoPorMotorista ==
    /\ \A m \in Motoristas : Cardinality(VeiculosEmUso(m, veiculos)) <= 1
    /\ resposta.erro # "MultipleObjectsReturned"

\* C16: the history is append-only: whatever the operation, every delivery
\* that had history rows still has them, unchanged and in the same order,
\* so that the sequence of rows of a delivery only grows.
C16_HistoricoSoCresce ==
    [][\A e \in DOMAIN historico :
        Len(historico[e]) > 0 =>
            /\ e \in DOMAIN historico'
            /\ Len(historico'[e]) >= Len(historico[e])
            /\ \A i \in 1..Len(historico[e]) : historico'[e][i] = historico[e][i]]_vars

C18_CriacaoComCapacidade ==
    [][\A v \in Veiculos \cup {None}, ids \in SUBSET Entregas, raw \in SUBSET Entregas :
        (/\ resposta'.op = "rota_create"
         /\ ids = {} \/ raw = {}
         /\ RotaCreate(Admin, "planejada", None, v, ids, raw)) =>
            LET dadas == ids \cup raw
                pk == Len(rotas) + 1
            IN  IF v # None /\ Sum(dadas, entregas) > veiculos[v].capacidade_maxima
                THEN /\ resposta'.status >= 400
                     /\ rotas' = rotas
                     /\ rota_entregas' = rota_entregas
                ELSE resposta'.status = 201 =>
                     /\ rota_entregas'[pk] = dadas
                     /\ \A e \in dadas : entregas[e].status = "pendente"
                     /\ rotas'[pk].capacidade_total_utilizada = Sum(dadas, entregas)]_vars

\* C19: creating a delivery whose expected delivery date lies before the
\* current date is rejected with a validation error and no delivery is
\* created.
C19_DataPassadaRejeitada ==
    [][\A a \in Atores, cliente \in {Omitido, 1}, d \in DatasPrevistas,
          c \in CapacidadesPedidas, r \in {None} \cup RotaPks :
        (/\ resposta'.op = "entrega_create"
         /\ d < now
         /\ EntregaCreate(a, cliente, d, c, r)) =>
            /\ resposta'.status \in {400, 403}
            /\ entregas' = entregas]_vars

\* C20, as stated: the public tracking lookup needs no authentication and
\* changes no state; for a code that matches no delivery it returns NotFound,
\* and for the code of an existing delivery it returns that delivery with all
\* of its history entries (an empty list when it has none) and no entry of
\* any other delivery.
C20_Original ==
    [][\A a \in Atores \cup {Anonimo}, codigo \in CodigosPedidos :
        (/\ resposta'.op = "por_codigo_rastreio"
         /\ PorCodigoRastreio(a, codigo)) =>
            LET achadas == {e \in DOMAIN entregas :
                                codigo # <<>> /\ codigo[1].simbolo = e}
            IN  /\ UNCHANGED banco
                /\ achadas = {} => resposta'.status = 404
                /\ \A e \in achadas :
                    /\ resposta'.status = 200
                    /\ resposta'.entrega = e
                    /\ resposta'.dados = entregas[e]
                    /\ resposta'.historico = historico[e]]_vars

\* C20, amended: the lookup needs no authentication and changes no state;
\* an empty or missing code is answered BadRequest; a non-empty code that,
\* compared without regard to case, matches no delivery is answered NotFound;
\* the code of an existing delivery returns that delivery with exactly its
\* own history entries.
C20_RastreamentoPublico ==
    [][\A a \in Atores \cup {Anonimo}, codigo \in CodigosPedidos :
        (/\ resposta'.op = "por_codigo_rastreio"
         /\ PorCodigoRastreio(a, codigo)) =>
            LET achadas == {e \in DOMAIN entregas :
                                codigo # <<>> /\ codigo[1].simbolo = e}
            IN  /\ UNCHANGED banco
                /\ codigo = <<>> => resposta'.status = 400
                /\ (codigo # <<>> /\ achadas = {}) => resposta'.status = 404
                /\ \A e \in achadas :
                    /\ resposta'.status = 200
                    /\ resposta'.entrega = e
                    /\ resposta'.dados = entregas[e]
                    /\ resposta'.historico = historico[e]]_vars

\* A lookup answered with a delivery that has a history entry while another
\* delivery has none.
C20_Witness ==
    /\ resposta.op = "por_codigo_rastreio"
    /\ resposta.status = 200
    /\ Len(resposta.historico) > 0
    /\ resposta.historico = historico[resposta.entrega]
    /\ \E o \in DOMAIN historico : o # resposta.entrega /\ historico[o] = <<>>

\* C21: across all API operations a route's status only ever changes from
\* planned to in progress (by start) and from in progress to completed (by
\* complete); no route becomes completed without having been in progress,
\* and a completed route never returns to planned or in progress.
C21_CicloDeVidaDaRota ==
    [][/\ \A pk \in DOMAIN rotas :
            rotas'[pk].status # rotas[pk].status =>
                \/ /\ rotas[pk].status = "planejada"
                   /\ rotas'[pk].status = "em_andamento"
                   /\ resposta'.op = "iniciar_rota"
                \/ /\ rotas[pk].status = "em_andamento"
                   /\ rotas'[pk].status = "concluida"
                   /\ resposta'.op = "concluir_rota"
       /\ \A pk \in DOMAIN rotas' \ DOMAIN rotas :
            rotas'[pk].status # "concluida"]_vars

\* C22: every save of a route, whichever operation triggers it (start,
\* complete, add-delivery, remove-delivery, update), forces the route's
\* driver to en route and its vehicle to in use when the route is in
\* progress, forces both to available when it is completed, and leaves every
\* driver and vehicle status unchanged when it is planned or cancelled.
C22_SalvarForcaStatus ==
    [][\A pk \in DOMAIN rotas :
        LET r == rotas'[pk]
            Salva ==
                /\ resposta'.status = 200
                /\ \/ resposta'.op = "iniciar_rota" /\ IniciarRota(Admin, pk)
                   \/ resposta'.op = "concluir_rota" /\ ConcluirRota(Admin, pk, Omitido)
                   \/ /\ resposta'.op = "adicionar_entrega"
                      /\ \E e \in Entregas : AdicionarEntrega(Admin, pk, e)
                   \/ /\ resposta'.op = "remover_entrega"
                      /\ \E e \in Entregas : RemoverEntrega(Admin, pk, e)
                   \/ /\ resposta'.op = "rota_partial_update"
                      /\ \E st \in StatusRota :
                            RotaPartialUpdate(Admin, pk, st, Omitido, Omitido)
        IN  Salva =>
            /\ r.status = "em_andamento" =>
                /\ r.motorista # None => motoristas'[r.motorista].status = "em_rota"
                /\ r.veiculo # None => veiculos'[r.veiculo].status = "em_uso"
            /\ r.status = "concluida" =>
                /\ r.motorista # None => motoristas'[r.motorista].status = "disponivel"
                /\ r.veiculo # None => veiculos'[r.veiculo].status = "disponivel"
            /\ r.status \in {"planejada", "cancelada"} =>
                /\ \A m \in DOMAIN motoristas :
                        motoristas'[m].status = motoristas[m].status
                /\ \A v \in DOMAIN veiculos :
                        veiculos'[v].status = veiculos[v].status]_vars

\* A delivery was added to a completed route whose driver also serves a
\* route in progress: the save made the driver available.
C22_Witness ==
    /\ resposta = Response("adicionar_entrega", 200, "")
    /\ \E pk \in DOMAIN rotas, outra \in DOMAIN rotas :
        /\ rotas[pk].status = "concluida"
        /\ rota_entregas[pk] # {}
        /\ rotas[outra].status = "em_andamento"
        /\ rotas[outra].motorista = rotas[pk].motorista
        /\ motoristas[rotas[pk].motorista].status = "disponivel"

\* C23: the driver stored in the history row written by update-status is the
\* linked driver of the actor who made the request; when the administrator,
\* who has no linked driver, changes the status of a delivery assigned to
\* driver D, the row does not name D.
C23_HistoricoNomeiaOAtor ==
    [][\A a \in Atores, e \in Entregas, s \in StatusEntrega :
        (/\ resposta'.op = "atualizar_status"
         /\ resposta'.status = 200
         /\ AtualizarStatus(a, e, s)) =>
            historico'[e][Len(historico'[e])].motorista =
                IF a = Admin THEN None ELSE a]_vars

\* C24: when two add-delivery requests for the same route with a vehicle run
\* concurrently and their steps interleave, then once both have finished the
\* sum of the required capacity over the route's deliveries does not exceed
\* the vehicle's maximum and equals the stored utilized capacity.
C24_AdicoesConcorrentes ==
    \A i \in Pedidos, j \in Pedidos :
        (/\ i # j
         /\ pedidos[i].op = "adicionar_entrega" /\ pedidos[j].op = "adicionar_entrega"
         /\ pedidos[i].pc = "fim" /\ pedidos[j].pc = "fim"
         /\ pedidos[i].status = 200 /\ pedidos[j].status = 200
         /\ pedidos[i].pk = pedidos[j].pk
         /\ rotas[pedidos[i].pk].veiculo # None) =>
            LET pk == pedidos[i].pk
                soma == Sum(rota_entregas[pk], entregas)
            IN  /\ soma <= veiculos[rotas[pk].veiculo].capacidade_maxima
                /\ soma = rotas[pk].capacidade_total_utilizada

\* C25: in every state reachable through start, complete, add-delivery,
\* remove-delivery and assign-vehicle, the driver of every route in progress
\* is en route and its vehicle is in use.
C25_EmAndamentoOcupa ==
    \A pk \in DOMAIN rotas :
        rotas[pk].status = "em_andamento" =>
            /\ rotas[pk].motorista # None =>
                    motoristas[rotas[pk].motorista].status = "em_rota"
            /\ rotas[pk].veiculo # None =>
                    veiculos[rotas[pk].veiculo].status = "em_uso"

\* C26: no two routes in progress share a driver or a vehicle: start does not
\* succeed while the route's driver is en route on another route in progress,
\* while its vehicle is in use by another route in progress, or while its
\* vehicle is in maintenance.
C26_InicioExclusivo ==
    [][\A pk \in DOMAIN rotas :
        (/\ resposta'.op = "iniciar_rota"
         /\ resposta'.status = 200
         /\ IniciarRota(Admin, pk)) =>
            /\ \A outra \in DOMAIN rotas \ {pk} :
                rotas[outra].status = "em_andamento" =>
                    /\ rotas[outra].motorista # rotas[pk].motorista
                    /\ rotas[outra].veiculo # rotas[pk].veiculo
            /\ veiculos[rotas[pk].veiculo].status # "manutencao"]_vars

\* C27: the two representations of route membership agree in every reachable
\* state: a delivery is in a route's delivery set if and only if the
\* delivery's route is that route; hence a delivery is in the delivery set of
\* at most one route.
C27_MembrosConcordam ==
    /\ \A pk \in DOMAIN rotas, e \in DOMAIN entregas :
            e \in rota_entregas[pk] <=> entregas[e].rota = pk
    /\ \A pk \in DOMAIN rotas, outra \in DOMAIN rotas :
            pk # outra => rota_entregas[pk] \cap rota_entregas[outra] = {}

\* C28: in every reachable state no delivery in the delivery set of a route
\* in progress or completed is pending: add-delivery does not attach a
\* pending delivery to a started route without moving it to in transit.
C28_SemPendenteEmRotaIniciada ==
    \A pk \in DOMAIN rotas :
        rotas[pk].status \in {"em_andamento", "concluida"} =>
            \A e \in rota_entregas[pk] \cap DOMAIN entregas :
                entregas[e].status # "pendente"

\* C29: when a start request runs concurrently with an add-delivery or a
\* remove-delivery request on the same route, the effect of start is not
\* lost: once both have finished the route is in progress with its start
\* time set, and it is not back to planned while its driver is en route and
\* its vehicle in use.
C29_InicioNaoSePerde ==
    \A i \in Pedidos, j \in Pedidos :
        (/\ pedidos[i].op = "iniciar_rota"
         /\ pedidos[j].op \in {"adicionar_entrega", "remover_entrega"}
         /\ pedidos[i].pc = "fim" /\ pedidos[j].pc = "fim"
         /\ pedidos[i].status = 200 /\ pedidos[j].status = 200
         /\ pedidos[i].pk = pedidos[j].pk) =>
            LET rota == rotas[pedidos[i].pk]
            IN  /\ rota.status = "em_andamento"
                /\ rota.data_inicio # None
                /\ ~(/\ rota.status = "planejada"
                     /\ motoristas[rota.motorista].status = "em_rota"
                     /\ veiculos[rota.veiculo].status = "em_uso")

\* C30: the stored utilized capacity of a route stays equal to the sum of
\* the required capacity over its deliveries also after operations on a
\* member delivery itself: after a delivery is deleted, or its required
\* capacity is changed through the delivery update endpoint, every route's
\* stored capacity agrees with the sum.
C30_CargaAposOperacaoNaEntrega ==
    [][(/\ resposta'.op \in {"entrega_destroy", "entrega_partial_update"}
        /\ resposta'.status \in {200, 204}) =>
            \A pk \in DOMAIN rotas' :
                rotas'[pk].capacidade_total_utilizada =
                    Sum(rota_entregas'[pk] \cap DOMAIN entregas', entregas')]_vars

====
